---- MODULE Spec2Model ----
(***************************************************************************)
(* A model of package github.com/perfectogo/log: the Logger writer          *)
(* (New, SetOutput, itoa, formatHeader, Output) of log.go and the two       *)
(* builds of the level functions: the one in log.go (Println, Info, Error,  *)
(* Warning) and the one with package-level caller variables (Println,       *)
(* Infoln, Errorln, Warning).                                               *)
(*                                                                          *)
(* Byte strings are TLA+ strings; the ESC byte (0x1b) of a colour escape    *)
(* is written in its octal source form, backslash 0 3 3.                    *)
(***************************************************************************)
EXTENDS Integers, Sequences, FiniteSets, TLC

VARIABLES
    build,      \* which build of the level functions is linked: "log" or "ln"
    isStd,      \* TRUE when the Logger is the package's std, FALSE for one made by New
    mu,         \* Logger.mu: the thread that locked it, or NoThread
    prefix,     \* Logger.prefix
    flag,       \* Logger.flag
    out,        \* Logger.out
    buf,        \* Logger.buf
    isDiscard,  \* Logger.isDiscard
    pkg,        \* the package-level variables filename, line, pc
    th,         \* per thread: the position in the running call and its locals
    calls,      \* history: per thread, the inputs of the calls it started, in order
    written     \* history: every Write a sink received, in order

vars == <<build, isStd, mu, prefix, flag, out, buf, isDiscard, pkg, th, calls, written>>

----------------------------------------------------------------------------
(* Bounds *)

NThreads == 2
MaxCalls == 2

Threads == 1..NThreads
NoThread == 0

----------------------------------------------------------------------------
(* Flags, log.go:14-23 *)

Ldate == 1
Ltime == 2
Lmicroseconds == 4
Llongfile == 8
Lshortfile == 16
LUTC == 32
Lmsgprefix == 64
LstdFlags == Ldate + Ltime

\* flag&bit != 0, for a single-bit mask
Has(f, bit) == (f \div bit) % 2 = 1

----------------------------------------------------------------------------
(* Colour palette *)

ESC == "\\033"
Reset == ESC \o "[0m"
Red == ESC \o "[31m"
Green == ESC \o "[32m"
Yellow == ESC \o "[33m"
Blue == ESC \o "[34m"
White == ESC \o "[37m"

----------------------------------------------------------------------------
(* Strings *)

CharAt(s, i) == SubSeq(s, i, i)

HasPrefix(s, p) == Len(p) <= Len(s) /\ SubSeq(s, 1, Len(p)) = p

HasSuffix(s, p) == Len(p) <= Len(s) /\ SubSeq(s, Len(s) - Len(p) + 1, Len(s)) = p

Contains(s, p) == \E i \in 1..(Len(s) - Len(p) + 1) : SubSeq(s, i, i + Len(p) - 1) = p

Digit(d) == CharAt("0123456789", d + 1)

\* itoa, log.go:60-74: decimal, zero-padded to wid digits (no padding for wid < 0)
RECURSIVE itoa(_, _)
itoa(i, wid) ==
    IF i >= 10 \/ wid > 1
    THEN itoa(i \div 10, wid - 1) \o Digit(i - (i \div 10) * 10)
    ELSE Digit(i)

\* strconv.Itoa for the non-negative line numbers runtime.Caller reports
RECURSIVE Itoa(_)
Itoa(i) == IF i >= 10 THEN Itoa(i \div 10) \o Digit(i % 10) ELSE Digit(i)

----------------------------------------------------------------------------
(* time.Time: the wall clock in the local zone and in UTC *)

Clock(y, mo, d, h, mi, s, ns) ==
    [year |-> y, month |-> mo, day |-> d, hour |-> h, min |-> mi, sec |-> s, nsec |-> ns]

UTC(t) == [local |-> t.utc, utc |-> t.utc]

\* the zero time.Time, held by a thread that has read no clock
ZeroTime == [local |-> Clock(1, 1, 1, 0, 0, 0, 0), utc |-> Clock(1, 1, 1, 0, 0, 0, 0)]

----------------------------------------------------------------------------
(* formatHeader, log.go:81-131 *)

\* log.go:114-121: the loop runs i from len(file)-1 down to 1 (0-based), so
\* the byte at index 0 is never examined; j is the 1-based position
RECURSIVE shortFile(_, _)
shortFile(file, j) ==
    IF j <= 1 THEN file
    ELSE IF CharAt(file, j) = "/" THEN SubSeq(file, j + 1, Len(file))
    ELSE shortFile(file, j - 1)

headerPrefix(f, p) == IF ~Has(f, Lmsgprefix) THEN p ELSE ""

headerDate(f, c) ==
    IF Has(f, Ldate)
    THEN itoa(c.year, 4) \o "/" \o itoa(c.month, 2) \o "/" \o itoa(c.day, 2) \o " "
    ELSE ""

headerClock(f, c) ==
    IF Has(f, Ltime) \/ Has(f, Lmicroseconds)
    THEN itoa(c.hour, 2) \o ":" \o itoa(c.min, 2) \o ":" \o itoa(c.sec, 2)
         \o (IF Has(f, Lmicroseconds) THEN "." \o itoa(c.nsec \div 1000, 6) ELSE "")
         \o " "
    ELSE ""

headerTime(f, t) ==
    IF Has(f, Ldate) \/ Has(f, Ltime) \/ Has(f, Lmicroseconds)
    THEN LET c == (IF Has(f, LUTC) THEN UTC(t) ELSE t).local
         IN  headerDate(f, c) \o headerClock(f, c)
    ELSE ""

headerFile(f, file, line) ==
    IF Has(f, Lshortfile) \/ Has(f, Llongfile)
    THEN (IF Has(f, Lshortfile) THEN shortFile(file, Len(file)) ELSE file)
         \o ":" \o itoa(line, -1) \o ": "
    ELSE ""

headerMsgPrefix(f, p) == IF Has(f, Lmsgprefix) THEN p ELSE ""

formatHeader(b, f, p, t, file, line) ==
    b \o headerPrefix(f, p) \o headerTime(f, t) \o headerFile(f, file, line)
      \o headerMsgPrefix(f, p)

----------------------------------------------------------------------------
(* error values: nil, or an error with its Error() text *)

NilErr == [isNil |-> TRUE, msg |-> ""]
NewErr(m) == [isNil |-> FALSE, msg |-> m]

----------------------------------------------------------------------------
(* Output, log.go:133-169: the pieces that compute bytes *)

ErrorFuncName == "github.com/perfectogo/log.Error"

appendMessageAlways(b, s) == b \o s \o "\n"

\* log.go:152-155
appendMessage(b, s) ==
    b \o s \o (IF Len(s) = 0 \/ CharAt(s, Len(s)) # "\n" THEN "\n" ELSE "")

wrapNilPlain(functionName, color, err, b) ==
    IF functionName = ErrorFuncName /\ err.isNil
    THEN "TIME: " \o b
    ELSE color \o "TIME: " \o b \o Reset

\* log.go:157-165
wrap(functionName, color, err, b) ==
    IF functionName = ErrorFuncName
    THEN IF ~err.isNil
         THEN color \o "TIME: " \o b \o Reset
         ELSE color \o "TIME: " \o b \o Reset
    ELSE color \o "TIME: " \o b \o Reset

\* log.go:144-147: the file and line Output keeps from runtime.Caller
outputFile(c) == IF c.ok THEN c.file ELSE "???"
outputLine(c) == IF c.ok THEN c.line ELSE 0

----------------------------------------------------------------------------
(* Caller frames *)

NoPC == 0

Site(pc, file, line, fn) == [pc |-> pc, file |-> file, line |-> line, fn |-> fn]

AllSites ==
    { Site(1, "/a/b/c/d.go", 23, "main.main"),
      Site(2, "/srv/x.go", 7, "main.run"),
      Site(3, "/main.go", 104, "main.init"),
      Site(4, "d.go", 5, "main.f") }

\* runtime.Caller(skip) for a frame that is site when it exists
Caller(site, ok) ==
    IF ok THEN [pc |-> site.pc, file |-> site.file, line |-> site.line, ok |-> TRUE]
    ELSE [pc |-> NoPC, file |-> "", line |-> 0, ok |-> FALSE]

\* the name of the function that owns a program counter; "" for none
Fn(pc) ==
    IF \E s \in AllSites : s.pc = pc
    THEN (CHOOSE s \in AllSites : s.pc = pc).fn
    ELSE ""

PkgPath == "github.com/perfectogo/log."

\* getCurrentFuncName, log.go:171-174, called from level function op
getCurrentFuncName(op) == PkgPath \o op

----------------------------------------------------------------------------
(* The messages the level functions of log.go build *)

\* the closure fn of log.go:179-182: it ignores its argument and names the
\* function that called it, which is Println
fn(pc) == PkgPath \o "Println"

\* log.go:193
PrintlnMsg(filename, fnname, line, color, v) ==
    "\nPATH:\t" \o filename \o "\nFUNCTION: " \o fnname
    \o "\nLOG LINE: " \o Itoa(line) \o color \o "\nINFO: " \o v \o Reset

\* log.go:207
InfoMsg(filename, line, color, v) ==
    "\n\tPATH: " \o filename \o "\n\tLOG LINE: " \o Itoa(line)
    \o "\n\tINFO: " \o color \o v \o Reset

\* log.go:214-219
ErrorColor(err) == IF ~err.isNil THEN Red ELSE Green

ErrorMsgSuppressed(filename, line, color, msg, err) ==
    "\n\tPATH: " \o filename \o "\n\tLOG LINE: " \o Itoa(line) \o color
    \o "\n\tMESSAGE: " \o msg
    \o (IF ~err.isNil THEN "\n\tERROR: " \o err.msg ELSE "") \o Reset

\* log.go:218-229
ErrorMsg(filename, line, color, msg, err) ==
    IF ~err.isNil
    THEN "\n\tPATH: " \o filename \o "\n\tLOG LINE: " \o Itoa(line) \o color
         \o "\n\tMESSAGE: " \o msg \o "\n\tERROR: " \o err.msg \o Reset
    ELSE "\n\tPATH: " \o filename \o "\n\tLOG LINE: " \o Itoa(line) \o color
         \o "\n\tMESSAGE: " \o msg \o "\n\tERROR: NO ERROR" \o Reset

\* log.go:241
WarningMsg(filename, line, color, v) ==
    "\nWARNING LOG\n\tPATH: " \o filename \o "\n\tLOG LINE: " \o Itoa(line)
    \o "\n\tWARNING: " \o color \o v \o Reset

----------------------------------------------------------------------------
(* The messages the level functions with package-level variables build *)

lnHead(color, filename, fnname, line) ==
    color \o "\nPATH:       " \o filename \o "\nFUNCTION:   " \o fnname
    \o "\nLOG LINE:   " \o Itoa(line)

PrintlnLnMsg(color, filename, fnname, line, v) ==
    lnHead(color, filename, fnname, line) \o "\nPRINTLN:    " \o v \o Reset

InfolnMsg(color, filename, fnname, line, v) ==
    lnHead(color, filename, fnname, line) \o "\nINFO:       " \o v \o Reset

ErrorlnMsg(color, filename, fnname, line, msg, err) ==
    IF ~err.isNil
    THEN lnHead(color, filename, fnname, line) \o color
         \o "\nMESSAGE:    " \o msg \o "\nERROR:      " \o err.msg \o Reset
    ELSE lnHead(color, filename, fnname, line)
         \o "\nMESSAGE:    " \o msg \o "\nERROR:      NO ERROR" \o Reset

WarningLnMsg(color, filename, fnname, line, v) ==
    lnHead(color, filename, fnname, line) \o "\nWARNING:    " \o v \o Reset

----------------------------------------------------------------------------
(* What a level function passes to Output, from the caller metadata it     *)
(* holds. v is fmt.Sprint(v...) of a call with one string operand, which   *)
(* is that string.                                                         *)

LevelOps(b) ==
    IF b = "log" THEN {"Println", "Info", "Error", "Warning"}
    ELSE {"Println", "Infoln", "Errorln", "Warning"}

ErrorOps == {"Error", "Errorln"}

LevelColor(op, err) ==
    CASE op = "Println" -> White
      [] op \in {"Info", "Infoln"} -> Blue
      [] op = "Warning" -> Yellow
      [] op \in ErrorOps -> ErrorColor(err)

LevelMsg(b, op, color, filename, fnname, line, v, err) ==
    IF b = "log"
    THEN CASE op = "Println" -> PrintlnMsg(filename, fnname, line, color, v)
           [] op = "Info" -> InfoMsg(filename, line, color, v)
           [] op = "Error" -> ErrorMsg(filename, line, color, v, err)
           [] op = "Warning" -> WarningMsg(filename, line, color, v)
    ELSE CASE op = "Println" -> PrintlnLnMsg(color, filename, fnname, line, v)
           [] op = "Infoln" -> InfolnMsg(color, filename, fnname, line, v)
           [] op = "Errorln" -> ErrorlnMsg(color, filename, fnname, line, v, err)
           [] op = "Warning" -> WarningLnMsg(color, filename, fnname, line, v)

\* the functionName argument: the log.go build passes getCurrentFuncName();
\* the other build's Output takes none
LevelFuncName(b, op) == IF b = "log" THEN getCurrentFuncName(op) ELSE ""

\* the FUNCTION field: fn(pc) in log.go, Fn(pc) in the other build
LevelFn(b, pc) == IF b = "log" THEN fn(pc) ELSE Fn(pc)

----------------------------------------------------------------------------
(* State *)

Stderr == "os.Stderr"
Discard == "io.Discard"

Idle ==
    [pc |-> "idle", id |-> 0, op |-> "none",
     \* Output's parameters and locals
     functionName |-> "", color |-> "", err |-> NilErr, s |-> "",
     now |-> ZeroTime, file |-> "", line |-> 0,
     \* a level function's locals
     filename |-> "", lline |-> 0, lpc |-> NoPC, v |-> "",
     \* SetOutput's parameter
     w |-> "none"]

\* New, log.go:34-40
New(o, p, f) ==
    [out |-> o, prefix |-> p, flag |-> f, buf |-> "",
     isDiscard |-> IF o = Discard THEN 1 ELSE 0]

InitLogger(l, std, b) ==
    /\ isStd = std
    /\ build = b
    /\ mu = NoThread
    /\ out = l.out
    /\ prefix = l.prefix
    /\ flag = l.flag
    /\ buf = l.buf
    /\ isDiscard = l.isDiscard
    /\ pkg = [filename |-> "", line |-> 0, pc |-> NoPC]
    /\ th = [t \in Threads |-> Idle]
    /\ calls = [t \in Threads |-> <<>>]
    /\ written = <<>>

\* var std = New(os.Stderr, "", LstdFlags), log.go:54
InitStd(b) == InitLogger(New(Stderr, "", LstdFlags), TRUE, b)

----------------------------------------------------------------------------
(* sync.Mutex *)

Lock(t) == mu = NoThread /\ mu' = t

Unlock(t) == mu' = NoThread

----------------------------------------------------------------------------
(* Calls *)

NewCall(t, op, site, ok, now) ==
    [t |-> t, op |-> op, site |-> site, ok |-> ok, now |-> now,
     v |-> "", err |-> NilErr, w |-> "none",
     functionName |-> "", color |-> "", s |-> "", entered |-> FALSE,
     startDiscard |-> (out = Discard /\ isDiscard = 1)]

RECURSIVE CallsUpTo(_)
CallsUpTo(t) == IF t = 0 THEN 0 ELSE Len(calls[t]) + CallsUpTo(t - 1)

\* threads are interchangeable: they are numbered in the order of their
\* first calls
CanCall(t, max) ==
    /\ th[t].pc = "idle"
    /\ CallsUpTo(NThreads) < max
    /\ IF t = 1 THEN TRUE ELSE calls[t - 1] # <<>>

\* the call thread t is running
Cur(t) == calls[t][th[t].id]

Frame(t) == Caller(Cur(t).site, Cur(t).ok)

Started(t, c) == [calls EXCEPT ![t] = Append(@, c)]

\* a direct call l.Output(functionName, color, err, calldepth, s); now is
\* the time.Now() of log.go:134
CallOutput(t, max, functionName, color, err, s, site, ok, now) ==
    /\ CanCall(t, max)
    /\ calls' = Started(t, [NewCall(t, "Output", site, ok, now) EXCEPT
                    !.functionName = functionName, !.color = color, !.err = err,
                    !.s = s,
                    !.entered = TRUE])
    /\ th' = [th EXCEPT ![t] = [Idle EXCEPT !.pc = "lock", !.id = Len(calls[t]) + 1,
                    !.op = "Output", !.functionName = functionName, !.color = color,
                    !.err = err, !.s = s, !.now = now]]
    /\ UNCHANGED <<build, isStd, mu, prefix, flag, out, buf, isDiscard, pkg, written>>

\* log.go:137-141: Lock, the test of the file flags, and the Unlock that
\* opens the window in which runtime.Caller runs
OutLock(t) ==
    /\ th[t].pc = "lock"
    /\ IF Has(flag, Lshortfile) \/ Has(flag, Llongfile)
       THEN mu = NoThread /\ Unlock(t) /\ th' = [th EXCEPT ![t].pc = "caller"]
       ELSE Lock(t) /\ th' = [th EXCEPT ![t].pc = "reset"]
    /\ UNCHANGED <<build, isStd, prefix, flag, out, buf, isDiscard, pkg, calls, written>>

\* log.go:142-147
OutCaller(t) ==
    /\ th[t].pc = "caller"
    /\ th' = [th EXCEPT ![t].pc = "relock",
                        ![t].file = outputFile(Frame(t)),
                        ![t].line = outputLine(Frame(t))]
    /\ UNCHANGED <<build, isStd, mu, prefix, flag, out, buf, isDiscard, pkg, calls, written>>

OutRelockNoLock(t) ==
    /\ th[t].pc = "relock"
    /\ th' = [th EXCEPT ![t].pc = "reset"]
    /\ UNCHANGED <<build, isStd, mu, prefix, flag, out, buf, isDiscard, pkg, calls, written>>

\* log.go:148
OutRelock(t) ==
    /\ th[t].pc = "relock"
    /\ Lock(t)
    /\ th' = [th EXCEPT ![t].pc = "reset"]
    /\ UNCHANGED <<build, isStd, prefix, flag, out, buf, isDiscard, pkg, calls, written>>

\* log.go:150
OutReset(t) ==
    /\ th[t].pc = "reset"
    /\ buf' = ""
    /\ th' = [th EXCEPT ![t].pc = "format"]
    /\ UNCHANGED <<build, isStd, mu, prefix, flag, out, isDiscard, pkg, calls, written>>

\* log.go:151-165
OutFormat(t) ==
    /\ th[t].pc = "format"
    /\ buf' = wrap(th[t].functionName, th[t].color, th[t].err,
                   appendMessage(
                     formatHeader(buf, flag, prefix, th[t].now, th[t].file, th[t].line),
                     th[t].s))
    /\ th' = [th EXCEPT ![t].pc = "write"]
    /\ UNCHANGED <<build, isStd, mu, prefix, flag, out, isDiscard, pkg, calls, written>>

OutWriteNoUnlock(t) ==
    /\ th[t].pc = "write"
    /\ written' = Append(written, [t |-> t, id |-> th[t].id, sink |-> out, bytes |-> buf])
    /\ th' = [th EXCEPT ![t] = Idle]
    /\ UNCHANGED <<build, isStd, mu, prefix, flag, out, buf, isDiscard, pkg, calls>>

\* log.go:166-167 with the deferred Unlock of log.go:138
OutWrite(t) ==
    /\ th[t].pc = "write"
    /\ written' = Append(written, [t |-> t, id |-> th[t].id, sink |-> out, bytes |-> buf])
    /\ Unlock(t)
    /\ th' = [th EXCEPT ![t] = Idle]
    /\ UNCHANGED <<build, isStd, prefix, flag, out, buf, isDiscard, pkg, calls>>

----------------------------------------------------------------------------
(* SetOutput, log.go:43-52 *)

CallSetOutput(t, max, w) ==
    /\ CanCall(t, max)
    /\ calls' = Started(t, [NewCall(t, "SetOutput", Site(NoPC, "", 0, ""), FALSE,
                                     ZeroTime) EXCEPT !.w = w])
    /\ th' = [th EXCEPT ![t] = [Idle EXCEPT !.pc = "setlock", !.id = Len(calls[t]) + 1,
                    !.op = "SetOutput", !.w = w]]
    /\ UNCHANGED <<build, isStd, mu, prefix, flag, out, buf, isDiscard, pkg, written>>

\* log.go:44
SetLock(t) ==
    /\ th[t].pc = "setlock"
    /\ Lock(t)
    /\ th' = [th EXCEPT ![t].pc = "setout"]
    /\ UNCHANGED <<build, isStd, prefix, flag, out, buf, isDiscard, pkg, calls, written>>

\* log.go:46
SetOut(t) ==
    /\ th[t].pc = "setout"
    /\ out' = th[t].w
    /\ th' = [th EXCEPT ![t].pc = "setstore"]
    /\ UNCHANGED <<build, isStd, mu, prefix, flag, buf, isDiscard, pkg, calls, written>>

discardValueZero(w) == 0

\* log.go:47-50
discardValue(w) == IF w = Discard THEN 1 ELSE 0

\* log.go:51-52 with the deferred Unlock of log.go:45
SetStore(t) ==
    /\ th[t].pc = "setstore"
    /\ isDiscard' = discardValue(th[t].w)
    /\ Unlock(t)
    /\ th' = [th EXCEPT ![t] = Idle]
    /\ UNCHANGED <<build, isStd, prefix, flag, out, buf, pkg, calls, written>>

----------------------------------------------------------------------------
(* The level functions, on std *)

SharedCapture(b, op) == b = "ln" /\ op = "Println"

\* the level functions that call Fn on the package-level pc
ReadsSharedPc(b, op) == b = "ln" /\ op \in {"Println", "Infoln", "Errorln"}

\* the level functions that keep the program counter of runtime.Caller(1)
\* in a local
KeepsPc(b, op) == (b = "ln" /\ op = "Warning") \/ (b = "log" /\ op = "Println")

\* entry of a level function; the ones that keep runtime.Caller(1) in
\* locals (log.go:177, 200, 212, 233; lines 36, 53, 85 of the other build)
\* have captured when they reach the load of isDiscard
CallLevel(t, max, op, site, ok, v, err, now) ==
    /\ isStd
    /\ op \in LevelOps(build)
    /\ CanCall(t, max)
    /\ calls' = Started(t, [NewCall(t, op, site, ok, now) EXCEPT !.v = v, !.err = err])
    /\ th' = [th EXCEPT ![t] =
                IF SharedCapture(build, op)
                THEN [Idle EXCEPT !.pc = "storepc", !.id = Len(calls[t]) + 1, !.op = op,
                                  !.v = v, !.err = err, !.now = now]
                ELSE [Idle EXCEPT !.pc = "load", !.id = Len(calls[t]) + 1, !.op = op,
                                  !.v = v, !.err = err, !.now = now,
                                  !.filename = Caller(site, ok).file,
                                  !.lline = Caller(site, ok).line,
                                  !.lpc = IF KeepsPc(build, op) THEN Caller(site, ok).pc
                                          ELSE NoPC]]
    /\ UNCHANGED <<build, isStd, mu, prefix, flag, out, buf, isDiscard, pkg, written>>

\* pc, filename, line, _ = runtime.Caller(1): three stores to the
\* package-level variables, none of them synchronised
StorePc(t) ==
    /\ th[t].pc = "storepc"
    /\ pkg' = [pkg EXCEPT !.pc = Frame(t).pc]
    /\ th' = [th EXCEPT ![t].pc = "storefile"]
    /\ UNCHANGED <<build, isStd, mu, prefix, flag, out, buf, isDiscard, calls, written>>

StoreFile(t) ==
    /\ th[t].pc = "storefile"
    /\ pkg' = [pkg EXCEPT !.filename = Frame(t).file]
    /\ th' = [th EXCEPT ![t].pc = "storeline"]
    /\ UNCHANGED <<build, isStd, mu, prefix, flag, out, buf, isDiscard, calls, written>>

StoreLine(t) ==
    /\ th[t].pc = "storeline"
    /\ pkg' = [pkg EXCEPT !.line = Frame(t).line]
    /\ th' = [th EXCEPT ![t].pc = "load"]
    /\ UNCHANGED <<build, isStd, mu, prefix, flag, out, buf, isDiscard, calls, written>>

\* std.Output(fnName, color, err, 2, message): the arguments, built from
\* the metadata the call holds, and entry into Output
EnterOutput(t, filename, lpc, lline) ==
    LET op == th[t].op
        color == LevelColor(op, th[t].err)
        fnName == LevelFuncName(build, op)
        s == LevelMsg(build, op, color, filename, LevelFn(build, lpc), lline,
                      th[t].v, th[t].err)
    IN  /\ th' = [th EXCEPT ![t].pc = "lock", ![t].functionName = fnName,
                            ![t].color = color, ![t].s = s,
                            ![t].filename = filename, ![t].lpc = lpc,
                            ![t].lline = lline]
        /\ calls' = [calls EXCEPT ![t][th[t].id].functionName = fnName,
                                  ![t][th[t].id].color = color,
                                  ![t][th[t].id].s = s,
                                  ![t][th[t].id].entered = TRUE]

\* if atomic.LoadInt32(&std.isDiscard) != 0 { return }
LevelLoad(t) ==
    /\ th[t].pc = "load"
    /\ IF isDiscard # 0
       THEN th' = [th EXCEPT ![t] = Idle] /\ UNCHANGED calls
       ELSE IF SharedCapture(build, th[t].op)
       THEN th' = [th EXCEPT ![t].pc = "readfile"] /\ UNCHANGED calls
       ELSE IF ReadsSharedPc(build, th[t].op)
       THEN th' = [th EXCEPT ![t].pc = "readpc"] /\ UNCHANGED calls
       ELSE EnterOutput(t, th[t].filename, th[t].lpc, th[t].lline)
    /\ UNCHANGED <<build, isStd, mu, prefix, flag, out, buf, isDiscard, pkg, written>>

\* the reads of the package-level variables in the message expression, in
\* its order: filename, Fn(pc), line
ReadFile(t) ==
    /\ th[t].pc = "readfile"
    /\ th' = [th EXCEPT ![t].pc = "readpc", ![t].filename = pkg.filename]
    /\ UNCHANGED <<build, isStd, mu, prefix, flag, out, buf, isDiscard, pkg, calls, written>>

ReadPc(t) ==
    /\ th[t].pc = "readpc"
    /\ IF SharedCapture(build, th[t].op)
       THEN th' = [th EXCEPT ![t].pc = "readline", ![t].lpc = pkg.pc] /\ UNCHANGED calls
       ELSE EnterOutput(t, th[t].filename, pkg.pc, th[t].lline)
    /\ UNCHANGED <<build, isStd, mu, prefix, flag, out, buf, isDiscard, pkg, written>>

ReadLine(t) ==
    /\ th[t].pc = "readline"
    /\ EnterOutput(t, th[t].filename, th[t].lpc, pkg.line)
    /\ UNCHANGED <<build, isStd, mu, prefix, flag, out, buf, isDiscard, pkg, written>>

----------------------------------------------------------------------------
(* Inputs *)

T1 == [local |-> Clock(2024, 1, 5, 9, 3, 7, 123456000),
       utc |-> Clock(2024, 1, 5, 4, 3, 7, 123456000)]
T2 == [local |-> Clock(2024, 1, 5, 0, 0, 0, 0), utc |-> Clock(2024, 1, 5, 0, 0, 0, 0)]

SiteOf(pc) == CHOOSE s \in AllSites : s.pc = pc

Narrow ==
    [sites |-> {SiteOf(1), SiteOf(2)}, oks |-> {TRUE}, vs |-> {"x"},
     errs |-> {NilErr}, times |-> {T1}, sinks |-> {Stderr, Discard},
     fns |-> {""}, colors |-> {Red}, msgs |-> {"m"},
     ops |-> {"Println", "Info", "Infoln"},
     outs |-> {Stderr, Discard}, prefixes |-> {"p: "},
     flags |-> {Llongfile, LstdFlags + Lshortfile}]

Wide ==
    [sites |-> AllSites, oks |-> BOOLEAN, vs |-> {"", "x", "x\n"},
     errs |-> {NilErr, NewErr("Xato")}, times |-> {T1, T2},
     sinks |-> {Stderr, Discard},
     fns |-> {"", ErrorFuncName}, colors |-> {Blue},
     msgs |-> {"", "m", "m\n", "\n", "m\n\n"},
     ops |-> {"Println", "Info", "Error", "Warning", "Infoln", "Errorln"},
     outs |-> {Stderr, Discard}, prefixes |-> {"", "p: "},
     flags |-> {0, Ldate, LstdFlags, Ltime + Lmicroseconds + LUTC, Llongfile,
                Lshortfile, Lshortfile + Llongfile, LstdFlags + Lshortfile + Lmsgprefix}]

----------------------------------------------------------------------------
(* Specifications *)

InitWith(In) ==
    \/ \E b \in {"log", "ln"} : InitStd(b)
    \/ \E o \in In.outs, p \in In.prefixes, f \in In.flags :
          InitLogger(New(o, p, f), FALSE, "log")

Start(t, max, In) ==
    \/ \E functionName \in In.fns, color \in In.colors, err \in In.errs,
          s \in In.msgs, site \in In.sites, ok \in In.oks, now \in In.times :
          CallOutput(t, max, functionName, color, err, s, site, ok, now)
    \/ \E w \in In.sinks : CallSetOutput(t, max, w)
    \/ \E op \in LevelOps(build) \cap In.ops, site \in In.sites, ok \in In.oks,
          v \in In.vs, now \in In.times :
          \E err \in IF op \in ErrorOps THEN In.errs ELSE {NilErr} :
             CallLevel(t, max, op, site, ok, v, err, now)

Step(t) ==
    \/ OutLock(t) \/ OutCaller(t) \/ OutRelock(t)
    \/ OutReset(t) \/ OutFormat(t) \/ OutWrite(t)
    \/ SetLock(t) \/ SetOut(t) \/ SetStore(t)
    \/ StorePc(t) \/ StoreFile(t) \/ StoreLine(t)
    \/ LevelLoad(t) \/ ReadFile(t) \/ ReadPc(t) \/ ReadLine(t)

Init == InitWith(Narrow)

Next == \E t \in Threads : Start(t, MaxCalls, Narrow) \/ Step(t)

Spec == Init /\ [][Next]_vars

\* the functions applied once: one thread, one call per behaviour, the
\* Logger and the call's inputs drawn from the wide sets
InitFmt == InitWith(Wide)

NextFmt == Start(1, 1, Wide) \/ Step(1)

SpecFmt == InitFmt /\ [][NextFmt]_vars

----------------------------------------------------------------------------
(* Properties *)

Writes == 1..Len(written)

\* the call that issued the i-th write
CallOf(i) == calls[written[i].t][written[i].id]

Running(t, k) == th[t].id = k /\ th[t].pc # "idle"

WritesOf(t, k) == {i \in Writes : written[i].t = t /\ written[i].id = k}

OwnFrame(c) == Caller(c.site, c.ok)

\* the line of a call of Output with arguments (c.functionName, c.color,
\* c.err, 2, s), from nothing but that call's own inputs
LineOf(c, s) ==
    wrap(c.functionName, c.color, c.err,
         appendMessage(
           formatHeader("", flag, prefix, c.now,
                        outputFile(OwnFrame(c)), outputLine(OwnFrame(c))),
           s))

AllLevelOps == LevelOps("log") \cup LevelOps("ln")

FileFlags == Has(flag, Lshortfile) \/ Has(flag, Llongfile)

\* C1: every write a sink received is the complete line of the call of
\* Output that issued it, and every call of Output that has returned has
\* issued exactly one write (none before it returns its write, none for a
\* call that never entered Output).
C1_OutputAtomic ==
    /\ \A i \in Writes : written[i].bytes = LineOf(CallOf(i), CallOf(i).s)
    /\ \A t \in Threads : \A k \in 1..Len(calls[t]) :
          Cardinality(WritesOf(t, k)) =
             IF calls[t][k].entered /\ ~Running(t, k) THEN 1 ELSE 0

\* two threads have each written a line through the unlock/re-lock window
C1_Witness ==
    /\ FileFlags
    /\ Len(written) = 2
    /\ written[1].t # written[2].t
    /\ written[1].bytes # written[2].bytes

\* C10: a thread is at a step that touches buf or out only while it holds
\* mu; a thread inside the unlocked window does not hold mu; at most one
\* thread is between the buffer reset and the sink write; mu is free when
\* no call is running.
C10_BufferUnderLock ==
    /\ \A t \in Threads :
          th[t].pc \in {"reset", "format", "write", "setout", "setstore"} => mu = t
    /\ \A t \in Threads : th[t].pc \in {"caller", "relock"} => mu # t
    /\ Cardinality({t \in Threads : th[t].pc \in {"format", "write"}}) <= 1
    /\ (\A t \in Threads : th[t].pc = "idle") => mu = NoThread

\* one thread is inside the unlocked window while another formats under mu
C10_Witness ==
    \E t, u \in Threads : th[t].pc = "relock" /\ th[u].pc = "format" /\ mu = u

\* C3 as stated: in every reachable state the discard flag is set exactly
\* when the sink is the discard sink.
C3_FlagIffDiscard == (isDiscard = 1) <=> (out = Discard)

\* C3 amended: the flag is set exactly when the sink is the discard sink
\* in every state in which no SetOutput call stands between its assignment
\* of the sink and its store of the flag.
C3_FlagIffDiscardOutsideSetOutput ==
    (\A t \in Threads : th[t].pc # "setstore") => ((isDiscard = 1) <=> (out = Discard))

\* SetOutput(io.Discard) has returned on a Logger made with another sink
C3_Witness ==
    \E t \in Threads :
       /\ calls[t] # <<>>
       /\ calls[t][1].op = "SetOutput" /\ calls[t][1].w = Discard
       /\ ~calls[t][1].startDiscard
       /\ ~Running(t, 1)
       /\ isDiscard = 1 /\ out = Discard

\* C2: a step of a level-function call that started with the discard sink
\* in place, taken while the sink is still the discard sink, leaves the
\* package-level variables, the buffer and every sink unchanged, and the
\* step from the flag test returns.
C2_DiscardShortCircuit ==
    [][\A t \in Threads :
          (/\ th[t].pc # "idle"
           /\ th[t].op \in AllLevelOps
           /\ Cur(t).startDiscard
           /\ out = Discard /\ isDiscard = 1
           /\ th'[t] # th[t])
          => /\ pkg' = pkg
             /\ buf' = buf
             /\ written' = written
             /\ th[t].pc = "load" => th'[t].pc = "idle"]_vars

\* C7: the line a level-function call emits renders the file, line and
\* function its own runtime.Caller(1) reported.
C7_OwnCallerMetadata ==
    \A i \in Writes :
       LET c == CallOf(i)
       IN  c.op \in AllLevelOps =>
             written[i].bytes =
                LineOf(c, LevelMsg(build, c.op, c.color, OwnFrame(c).file,
                                   LevelFn(build, OwnFrame(c).pc), OwnFrame(c).line,
                                   c.v, c.err))

\* the header Output renders for a call, from the call's own inputs
HeaderOf(c) ==
    formatHeader("", flag, prefix, c.now,
                 outputFile(OwnFrame(c)), outputLine(OwnFrame(c)))

NewlineAdded(m) == IF Len(m) = 0 \/ ~HasSuffix(m, "\n") THEN 1 ELSE 0

C5_ColorAndReset ==
    \A i \in Writes :
       LET c == CallOf(i)
       IN  c.op \in AllLevelOps =>
             /\ HasPrefix(written[i].bytes, LevelColor(c.op, c.err) \o "TIME: ")
             /\ HasSuffix(written[i].bytes, Reset)

\* Error with a nil cause has emitted its line
C5_Witness ==
    \E i \in Writes : CallOf(i).op = "Error" /\ CallOf(i).err.isNil

ErrorText(c) == IF c.err.isNil THEN "NO ERROR" ELSE c.err.msg

\* C6 as stated: every variant of the error level function emits
\* "ERROR: " immediately followed by NO ERROR or the cause's text.
C6_ErrorLineEveryVariant ==
    \A i \in Writes :
       LET c == CallOf(i)
       IN  c.op \in ErrorOps => Contains(written[i].bytes, "ERROR: " \o ErrorText(c))

\* C6 amended: Error emits "ERROR: " immediately followed by NO ERROR or
\* the cause's text; Errorln emits "ERROR:" and six spaces followed by NO
\* ERROR or the cause's text; neither suppresses the line.
C6_ErrorLinePerVariant ==
    \A i \in Writes :
       LET c == CallOf(i)
       IN  /\ c.op = "Error" =>
                Contains(written[i].bytes, "ERROR: " \o ErrorText(c))
           /\ c.op = "Errorln" =>
                Contains(written[i].bytes, "ERROR:      " \o ErrorText(c))

\* Errorln with a cause has emitted its line
C6_Witness ==
    \E i \in Writes : CallOf(i).op = "Errorln" /\ ~CallOf(i).err.isNil

\* the position of the last '/' of p at or before j, 0 when there is none
RECURSIVE LastSlash(_, _)
LastSlash(p, j) ==
    IF j = 0 THEN 0 ELSE IF CharAt(p, j) = "/" THEN j ELSE LastSlash(p, j - 1)

\* p with everything up to and including its last '/' removed
Base(p) == SubSeq(p, LastSlash(p, Len(p)) + 1, Len(p))

\* C8: with the short-file flag the header renders the file with
\* everything up to and including its last '/' removed, with only the
\* long-file flag the file in full, followed by ":line: ".
C8_ShortFileIsBase ==
    \A i \in Writes :
       LET c == CallOf(i)
           P == OwnFrame(c).file
           shown == IF Has(flag, Lshortfile) THEN Base(P) ELSE P
       IN  (c.op = "Output" /\ c.ok /\ FileFlags) =>
             written[i].bytes =
                wrap(c.functionName, c.color, c.err,
                     appendMessage(
                        headerPrefix(flag, prefix) \o headerTime(flag, c.now)
                        \o shown \o ":" \o Itoa(OwnFrame(c).line) \o ": "
                        \o headerMsgPrefix(flag, prefix),
                        c.s))

\* C9: when runtime.Caller reports ok=false, Output renders "???:0: " for
\* the header's file and line and every level function renders "???" and
\* 0 in its PATH and LOG LINE fields.
C9_SentinelEverywhere ==
    \A i \in Writes :
       LET c == CallOf(i)
       IN  ~c.ok =>
             /\ FileFlags => Contains(written[i].bytes, "???:0: ")
             /\ c.op \in AllLevelOps =>
                  written[i].bytes =
                     LineOf(c, LevelMsg(build, c.op, c.color, "???",
                                        LevelFn(build, NoPC), 0, c.v, c.err))

====
